---- MODULE Spec2Model ----
(***************************************************************************)
(* Model of simplex.py: the tableau simplex solver `linprog` and its       *)
(* driver `main`.                                                          *)
(*                                                                         *)
(* Numbers.  The tableau holds IEEE doubles.  A value is modelled as a     *)
(* pair <<n, d>>:                                                          *)
(*    d > 0, n # 0   the rational n/d in lowest terms                      *)
(*    <<0, 1>>       +0.0          <<0, -1>>   -0.0                        *)
(*    <<1, 0>>       +inf          <<-1, 0>>   -inf        <<0, 0>>  nan   *)
(* Arithmetic on finite values is exact (rounding is not modelled); the    *)
(* special values follow IEEE 754, which is what numpy produces for a      *)
(* division by zero (a warning, not an exception).                         *)
(*                                                                         *)
(* Indices are the source's: tab[r][k] is tab[r, k], row 0 the objective   *)
(* row, column 0 the Z column, column cols+1 the right-hand side           *)
(* (tab[r, -1]).  The vector returned by solve() is 1-based here: x[k] is  *)
(* the source's x[k-1], the value of tableau column k.                     *)
(***************************************************************************)
EXTENDS Integers, Sequences, FiniteSets, TLC

VARIABLES
    lines,       \* the parsed input program: [mode, c, A, signs, b]
    tab,         \* lp.tab
    basic_cols,  \* lp.basic_cols
    i,           \* main's iteration counter
    pc,          \* position of main / of the pivot harness
    pivots,      \* number of pivot() calls main has made
    last,        \* the last pivot() call: its arguments and what it saw and did
    basis,       \* row -> column basic in that row, kept the textbook way
    out          \* what main printed on success: [value, point, x]

vars == <<lines, tab, basic_cols, i, pc, pivots, last, basis, out>>

\* ------------------------------------------------------------------ numbers

Abs(n) == IF n < 0 THEN -n ELSE n

RECURSIVE Gcd(_, _)
Gcd(a, b) == IF b = 0 THEN a ELSE Gcd(b, a % b)

NaN == <<0, 0>>
PInf == <<1, 0>>
NInf == <<-1, 0>>
PZero == <<0, 1>>
NZero == <<0, -1>>
One == <<1, 1>>

IsNaN(v) == v = NaN
IsInf(v) == v[2] = 0 /\ v[1] # 0
IsZero(v) == v[1] = 0 /\ v[2] # 0
IsFinite(v) == v[2] # 0

\* the sign bit: -1 when set
Sgn(v) == IF v[1] < 0 \/ (v[1] = 0 /\ v[2] < 0) THEN -1 ELSE 1

Zero(s) == IF s < 0 THEN NZero ELSE PZero
Inf(s) == IF s < 0 THEN NInf ELSE PInf

\* the finite nonzero value n/d (d > 0, n # 0) in lowest terms
Mk(n, d) == LET g == Gcd(Abs(n), d) IN <<n \div g, d \div g>>

\* float(str) of an integer token
Num(k) == IF k = 0 THEN PZero ELSE <<k, 1>>

Neg(a) ==
    IF IsNaN(a) THEN NaN
    ELSE IF IsZero(a) THEN <<0, -a[2]>>
    ELSE <<-a[1], a[2]>>

Mul(a, b) ==
    IF IsNaN(a) \/ IsNaN(b) THEN NaN
    ELSE LET s == Sgn(a) * Sgn(b) IN
         IF IsInf(a) \/ IsInf(b)
         THEN (IF IsZero(a) \/ IsZero(b) THEN NaN ELSE Inf(s))
         ELSE IF IsZero(a) \/ IsZero(b) THEN Zero(s)
         ELSE Mk(a[1] * b[1], a[2] * b[2])

Add(a, b) ==
    IF IsNaN(a) \/ IsNaN(b) THEN NaN
    ELSE IF IsInf(a) THEN (IF IsInf(b) /\ b # a THEN NaN ELSE a)
    ELSE IF IsInf(b) THEN b
    ELSE IF IsZero(a) /\ IsZero(b) THEN (IF a = b THEN a ELSE PZero)
    ELSE IF IsZero(a) THEN b
    ELSE IF IsZero(b) THEN a
    ELSE LET n == a[1] * b[2] + b[1] * a[2] IN
         IF n = 0 THEN PZero ELSE Mk(n, a[2] * b[2])

Sub(a, b) == Add(a, Neg(b))

Div(a, b) ==
    IF IsNaN(a) \/ IsNaN(b) THEN NaN
    ELSE LET s == Sgn(a) * Sgn(b) IN
         IF IsInf(a) THEN (IF IsInf(b) THEN NaN ELSE Inf(s))
         ELSE IF IsInf(b) THEN Zero(s)
         ELSE IF IsZero(b) THEN (IF IsZero(a) THEN NaN ELSE Inf(s))
         ELSE IF IsZero(a) THEN Zero(s)
         ELSE Mk(s * Abs(a[1]) * b[2], a[2] * Abs(b[1]))

\* a < b, a == b, a <= b, a > b as the floats compare (all false on nan)
Lt(a, b) ==
    /\ ~IsNaN(a) /\ ~IsNaN(b)
    /\ IF IsInf(a) THEN a = NInf /\ b # NInf
       ELSE IF IsInf(b) THEN b = PInf
       ELSE a[1] * Abs(b[2]) < b[1] * Abs(a[2])

Eq(a, b) ==
    /\ ~IsNaN(a) /\ ~IsNaN(b)
    /\ (a = b \/ (IsZero(a) /\ IsZero(b)))

Le(a, b) == Lt(a, b) \/ Eq(a, b)
Gt(a, b) == Lt(b, a)

\* `v != 0` and the truth value of a float, `if v:`
NonZero(v) == ~Eq(v, PZero)

\* ------------------------------------------------------------------ linprog

MAX_MODE == 0
MIN_MODE == 1

\* self.rows, len(self.c), self.cols of the program built from `ls`
rows(ls) == Len(ls.A)
nvars(ls) == Len(ls.c)
cols(ls) == nvars(ls) + rows(ls)

\* signs.append(-1) for '>=', signs.append(1) for '<='
sign_of(tok) == IF tok = ">=" THEN -1 ELSE 1

\* linprog.__init__: the basic columns after construction (the slack columns)
init_basic_cols(ls) == (nvars(ls) + 1) .. cols(ls)

\* linprog.__init__: the tableau after construction.  The last loop multiplies
\* every slack column, objective row included, by its row's sign.
init_tab(ls) ==
    LET n == nvars(ls)
        zeros == [r \in 0 .. rows(ls) |-> [k \in 0 .. cols(ls) + 1 |-> PZero]]
        filled == [r \in 0 .. rows(ls) |-> [k \in 0 .. cols(ls) + 1 |->
            IF r = 0
            THEN (IF k = 0 THEN One
                  ELSE IF k <= n THEN Num(ls.c[k])
                  ELSE zeros[r][k])
            ELSE (IF k = cols(ls) + 1 THEN Num(ls.b[r])
                  ELSE IF k = 0 THEN zeros[r][k]
                  ELSE IF k <= n THEN Num(ls.A[r][k])
                  ELSE IF k - n = r THEN One ELSE PZero)]]
    IN  [r \in 0 .. rows(ls) |-> [k \in 0 .. cols(ls) + 1 |->
            IF k > n /\ k <= cols(ls)
            THEN Mul(filled[r][k], Num(sign_of(ls.signs[k - n])))
            ELSE filled[r][k]]]

\* index of the right-hand-side column, tab[r, -1]
rhs(t) == Cardinality(DOMAIN t[0]) - 1

\* linprog.nonbasic_cols
nonbasic_cols(ls, bc) == (1 .. cols(ls)) \ bc

\* linprog.iter_complete: all(x <= 0 for x in tab[0, 1:]); the slice runs to
\* the end of the row
iter_complete(t) == \A k \in 1 .. rhs(t) : Le(t[0][k], PZero)

\* linprog.min_value, called when iter_complete() holds
min_value(ls, t) ==
    IF ls.mode = MIN_MODE THEN t[0][rhs(t)] ELSE Neg(t[0][rhs(t)])

\* linprog.solve: for every basic column the right-hand side of the last row
\* in which the column has a truthy entry; 0 elsewhere
solve(t, bc) ==
    LET m == Cardinality(DOMAIN t) - 1
        hit(col) == {r \in 1 .. m : NonZero(t[r][col])}
        lastrow(col) == CHOOSE r \in hit(col) : \A q \in hit(col) : q <= r
    IN  [col \in 1 .. rhs(t) - 1 |->
            IF col \in bc /\ hit(col) # {} THEN t[lastrow(col)][rhs(t)]
            ELSE PZero]

\* numpy dot of one matrix row with x, accumulated left to right
RECURSIVE dot(_, _, _)
dot(row, x, k) ==
    IF k = 0 THEN PZero ELSE Add(dot(row, x, k - 1), Mul(row[k], x[k]))

\* linprog.check_feasible
check_feasible(t, bc) ==
    LET x == solve(t, bc)
        m == Cardinality(DOMAIN t) - 1
    IN  \A r \in 1 .. m : Eq(dot(t[r], x, rhs(t) - 1), t[r][rhs(t)])

\* pivot with the elimination done with the pivot row as it was before the
\* division by the pivot entry
pivot_tab_unscaled(t, row, var) ==
    LET recip == Div(One, t[row][var])
        prow == [k \in DOMAIN t[row] |-> Mul(t[row][k], recip)]
    IN  [r \in DOMAIN t |->
            IF r = row THEN prow
            ELSE [k \in DOMAIN t[r] |-> Sub(t[r][k], Mul(t[r][var], t[row][k]))]]

\* linprog.pivot, the row operations
pivot_tab(t, row, var) ==
    LET recip == Div(One, t[row][var])
        prow == [k \in DOMAIN t[row] |-> Mul(t[row][k], recip)]
    IN  [r \in DOMAIN t |->
            IF r = row THEN prow
            ELSE [k \in DOMAIN t[r] |-> Sub(t[r][k], Mul(t[r][var], prow[k]))]]

\* linprog.pivot, the scan of basic_cols: the columns the loop can remove.
\* The loop removes the first basic column, in the set's iteration order,
\* whose objective-row entry is nonzero after the row operations; the order
\* of a Python set is the implementation's, so any such column can be first.
pivot_removable(t2, bc) == {col \in bc : NonZero(t2[0][col])}

\* linprog.select_pivot, lines 116-119
candidate_cols(ls, t, bc) == {nbc \in nonbasic_cols(ls, bc) : Gt(t[0][nbc], PZero)}

\* linprog.select_pivot, lines 122-124: ratios[k] is the source's ratios[k-1]
ratios(t, col) ==
    [k \in 1 .. Cardinality(DOMAIN t) - 1 |-> Div(t[k][rhs(t)], t[k][col])]

\* the scan without the comparison v < min_v: every positive ratio replaces
\* the minimum
RECURSIVE min_scan_any_positive(_, _, _, _)
min_scan_any_positive(rat, k, min_i, min_v) ==
    IF k > Len(rat) THEN min_i
    ELSE IF Gt(rat[k], PZero)
         THEN min_scan_any_positive(rat, k + 1, k, rat[k])
         ELSE min_scan_any_positive(rat, k + 1, min_i, min_v)

\* linprog.select_pivot, lines 126-129: the scan from position k on, holding
\* the source's min_i + 1 and min_v
RECURSIVE min_scan(_, _, _, _)
min_scan(rat, k, min_i, min_v) ==
    IF k > Len(rat) THEN min_i
    ELSE IF (Lt(min_v, PZero) \/ Lt(rat[k], min_v)) /\ Gt(rat[k], PZero)
         THEN min_scan(rat, k + 1, k, rat[k])
         ELSE min_scan(rat, k + 1, min_i, min_v)

\* linprog.select_pivot, the row returned for column col (already min_i + 1)
select_row(t, col) ==
    LET rat == ratios(t, col) IN min_scan(rat, 1, 1, rat[1])

\* ------------------------------------------------------------------ inputs

MaxCols == 3    \* a generated program has cols = n + rows <= MaxCols

\* the numbers a generated program is written with
Coefs == {-1, 0, 1}
Rhs == {0, 1}

\* spec.md, example scenario 1
Textbook ==
    [mode |-> MAX_MODE, c |-> <<3, 2>>,
     A |-> <<(<<2, 1>>), (<<2, 3>>), (<<3, 1>>)>>,
     signs |-> <<"<=", "<=", "<=">>, b |-> <<18, 42, 24>>]

\* the well-formed programs with all b_i >= 0 within the bounds: n decision
\* variables, m constraints
Generated ==
    UNION {
        [mode : {MAX_MODE, MIN_MODE},
         c : [1 .. n -> Coefs],
         A : [1 .. m -> [1 .. n -> Coefs]],
         signs : [1 .. m -> {"<=", ">="}],
         b : [1 .. m -> Rhs]] : <<n, m>> \in {d \in (1 .. MaxCols) \X (1 .. MaxCols) : d[1] + d[2] <= MaxCols}}

Programs == Generated \cup {Textbook}

NoPivot ==
    [row |-> 0, col |-> 0, tab |-> <<>>, basic_cols |-> {}, removed |-> {},
     leaving |-> 0]
NoOut == [value |-> NaN, x |-> <<>>]

\* ------------------------------------------------------------------ main

\* main, lines 162-171: the state once linprog(lines) is constructed
Init ==
    /\ lines \in Programs
    /\ tab = init_tab(lines)
    /\ basic_cols = init_basic_cols(lines)
    /\ i = 0
    /\ pc = "check"
    /\ pivots = 0
    /\ last = NoPivot
    /\ basis = [r \in 1 .. rows(lines) |-> nvars(lines) + r]
    /\ out = NoOut

\* main, line 178
iter_limit(ls) == 10 * nvars(ls)

\* main, lines 173-177
CheckFeasible ==
    /\ pc = "check"
    /\ pc' = IF check_feasible(tab, basic_cols) THEN "loop" ELSE "infeasible"
    /\ UNCHANGED <<lines, tab, basic_cols, i, pivots, last, basis, out>>

\* main, lines 179 and 187-191: the loop ends, the result is printed
Report ==
    /\ pc = "loop"
    /\ iter_complete(tab)
    /\ pc' = "done"
    /\ out' = [value |-> min_value(lines, tab), x |-> solve(tab, basic_cols)]
    /\ UNCHANGED <<lines, tab, basic_cols, i, pivots, last, basis>>

\* main, lines 179-183: the iteration limit
GiveUp ==
    /\ pc = "loop"
    /\ ~iter_complete(tab)
    /\ i + 1 >= iter_limit(lines)
    /\ i' = i + 1
    /\ pc' = "limit"
    /\ UNCHANGED <<lines, tab, basic_cols, pivots, last, basis, out>>

\* main, lines 179-184: random.choice of an empty candidate list raises
\* IndexError, which nothing catches
ChoiceFails ==
    /\ pc = "loop"
    /\ ~iter_complete(tab)
    /\ i + 1 < iter_limit(lines)
    /\ candidate_cols(lines, tab, basic_cols) = {}
    /\ i' = i + 1
    /\ pc' = "crash"
    /\ UNCHANGED <<lines, tab, basic_cols, pivots, last, basis, out>>

\* linprog.pivot(row, var): the row operations, then the basic-column update
pivot(row, var) ==
    LET t2 == pivot_tab(tab, row, var)
        rem == pivot_removable(t2, basic_cols)
    IN  /\ tab' = t2
        /\ \E gone \in (IF rem = {} THEN {{}} ELSE {{q} : q \in rem}) :
            /\ basic_cols' = (basic_cols \ gone) \cup {var}
            /\ last' = [row |-> row, col |-> var, tab |-> tab,
                        basic_cols |-> basic_cols, removed |-> gone,
                        leaving |-> IF row \in DOMAIN basis THEN basis[row] ELSE 0]
        /\ basis' = IF row \in DOMAIN basis THEN [basis EXCEPT ![row] = var]
                    ELSE basis
        /\ pivots' = pivots + 1

\* main, lines 179-185: one iteration, select_pivot then pivot
Step ==
    /\ pc = "loop"
    /\ ~iter_complete(tab)
    /\ i + 1 < iter_limit(lines)
    /\ \E col \in candidate_cols(lines, tab, basic_cols) :
        pivot(select_row(tab, col), col)
    /\ i' = i + 1
    /\ UNCHANGED <<lines, pc, out>>

Next == CheckFeasible \/ Report \/ GiveUp \/ ChoiceFails \/ Step

Spec == Init /\ [][Next]_vars


\* ------------------------------------------------------------------ pivot alone

PivDepth == 3   \* pivot() calls made on one tableau

\* a program with a >= row, negative coefficients and a zero right-hand side
Mixed ==
    [mode |-> MIN_MODE, c |-> <<1, -2>>,
     A |-> <<(<<1, -1>>), (<<2, 3>>)>>,
     signs |-> <<">=", "<=">>, b |-> <<0, 3>>]

PivotPrograms == {Textbook, Mixed}

InitPivot ==
    /\ lines \in PivotPrograms
    /\ tab = init_tab(lines)
    /\ basic_cols = init_basic_cols(lines)
    /\ i = 0
    /\ pc = "pivot"
    /\ pivots = 0
    /\ last = NoPivot
    /\ basis = [r \in 1 .. rows(lines) |-> nvars(lines) + r]
    /\ out = NoOut

\* pivot(row, col) called on any entry that meets its precondition, whether
\* or not select_pivot would choose it
AnyPivot ==
    /\ pc = "pivot"
    /\ pivots < PivDepth
    /\ \E row \in DOMAIN tab : \E col \in DOMAIN tab[row] :
        /\ NonZero(tab[row][col])
        /\ pivot(row, col)
    /\ UNCHANGED <<lines, i, pc, out>>

NextPivot == AnyPivot

SpecPivot == InitPivot /\ [][NextPivot]_vars


\* ------------------------------------------------------------------ claims

\* C1: for the textbook program (max 3 2; 2 1 <= 18; 2 3 <= 42; 3 1 <= 24)
\* main never ends in a failure, is never stuck in its loop, and when it is
\* done it has reported value 33 at the point (3, 12), whatever columns
\* random.choice picked.
C1_TextbookOptimum ==
    lines = Textbook =>
        /\ pc \in {"check", "loop", "done"}
        /\ (pc = "loop" /\ ~iter_complete(tab)) =>
               /\ i + 1 < iter_limit(lines)
               /\ candidate_cols(lines, tab, basic_cols) # {}
        /\ pc = "done" =>
               /\ Eq(out.value, Num(33))
               /\ Eq(out.x[1], Num(3))
               /\ Eq(out.x[2], Num(12))

\* the textbook program has been solved, with at least two pivots
C1_Witness == lines = Textbook /\ pc = "done" /\ pivots >= 2

\* C2: whenever main is done, the vector x returned by solve() satisfies
\* [A | +/-I] x = b for the block built at construction, in every row.
C2_SolutionReproducesB ==
    pc = "done" =>
        LET block == init_tab(lines) IN
        \A r \in 1 .. rows(lines) :
            Eq(dot(block[r], out.x, cols(lines)), Num(lines.b[r]))

\* C3: whenever main is done, in either mode, the value it reports equals
\* the objective c . x at the point it reports.
C3_ValueIsObjective ==
    pc = "done" =>
        LET c == [k \in 1 .. nvars(lines) |-> Num(lines.c[k])] IN
        Eq(out.value, dot(c, out.x, nvars(lines)))

\* C4: main reports the iteration-limit failure only when 10 * n pivots have
\* been applied.
C4_LimitAfterTenN ==
    pc = "limit" => pivots = 10 * nvars(lines)

\* C5: after construction and after every pivot, basic_cols holds exactly
\* `rows` columns, one per constraint row, and the column a pivot removed is
\* the one that was basic in the pivot row.
C5_BasicColsTrackRows ==
    /\ Cardinality(basic_cols) = rows(lines)
    /\ basic_cols = {basis[r] : r \in 1 .. rows(lines)}
    /\ pivots > 0 => last.removed = {last.leaving}

\* C6: after pivot(row, col) on a nonzero entry, tab[row, col] is 1 and
\* tab[r, col] is 0 in every other row r, the objective row included.
C6_PivotColumnIsUnit ==
    pivots > 0 =>
        /\ tab[last.row][last.col] = One
        /\ \A r \in DOMAIN tab : r # last.row => IsZero(tab[r][last.col])

\* a pivot on an entry other than 1 or -1 that changed another row
C6_Witness ==
    /\ pivots > 0
    /\ Abs(last.tab[last.row][last.col][1]) # last.tab[last.row][last.col][2]
    /\ \E r \in DOMAIN tab : r # last.row /\ NonZero(last.tab[r][last.col])

\* C7: when some constraint row has a strictly positive entry in the chosen
\* column, the row select_pivot returned has a strictly positive entry and
\* the smallest nonnegative ratio among such rows (0 counts), and is the
\* first such row on ties.
C7_MinRatioRow ==
    pivots > 0 =>
        LET t == last.tab
            rat == ratios(t, last.col)
            pos == {r \in 1 .. rows(lines) : Gt(t[r][last.col], PZero)}
            ok == {r \in pos : Le(PZero, rat[r])}
        IN  pos # {} =>
                /\ last.row \in ok
                /\ \A r \in ok : Le(rat[last.row], rat[r])
                /\ \A r \in ok : Eq(rat[r], rat[last.row]) => last.row <= r

\* C8: after every pivot main applies, the right-hand side of every
\* constraint row is >= 0.
C8_RhsStaysNonnegative ==
    pivots > 0 => \A r \in 1 .. rows(lines) : Le(PZero, tab[r][rhs(tab)])

\* C9: in every state of main's loop, iter_complete() holds exactly when
\* every objective-row entry in columns 1..cols is <= 0, and when it does not
\* hold select_pivot has a candidate column.
C9_CompleteIffNoCandidate ==
    pc = "loop" =>
        /\ iter_complete(tab) <=> \A k \in 1 .. cols(lines) : Le(tab[0][k], PZero)
        /\ ~iter_complete(tab) => candidate_cols(lines, tab, basic_cols) # {}

\* C10: every (row, col) main passed from select_pivot to pivot had a
\* nonzero entry tab[row, col] at the call.
C10_PivotEntryNonzero ==
    pivots > 0 => NonZero(last.tab[last.row][last.col])

====
